---- MODULE Spec2Model ----
(***************************************************************************)
(* Model of pyservice/main.py: a FastAPI facade over an instagrapi client. *)
(* Four handlers (login, upload_photo, upload_video, get_stats), the proxy *)
(* configurator, the media path resolver and the engagement aggregation.   *)
(*                                                                         *)
(* Strings are sequences of one-character strings, so that formatting,     *)
(* path normalisation and prefix tests are computed and not assumed.       *)
(* Python values are tagged records: None, str, int.                       *)
(***************************************************************************)
EXTENDS Integers, Sequences, FiniteSets, TLC

VARIABLES
  env,        \* module globals SUPABASE_URL / SUPABASE_KEY / SUPABASE_BUCKET
  files,      \* regular files present on the local filesystem (normalised paths)
  dirs,       \* directories present on the local filesystem (normalised paths)
  served,     \* number of requests received so far
  handler,    \* endpoint of the request being served
  pc,         \* position of the handler in its code
  req,        \* the request body
  proxy,      \* cl.proxy of the request's client
  calls,      \* calls made so far while serving the request, in order
  exc,        \* exception caught at the handler boundary
  response,   \* the HTTP response of the request
  target,     \* ensure_media_path: target_path
  request,    \* ensure_media_path: the GET issued to remote storage
  fetched,    \* ensure_media_path: status of the remote response
  path,       \* photo_path / video_path returned by ensure_media_path
  fetches,    \* storage responses below 400 so far, per normalised target path
  misses,     \* storage responses of 400 and above so far, per normalised target path
  medias,     \* get_stats: medias
  now,        \* get_stats: now
  idx,        \* get_stats: position of the for loop
  stats       \* get_stats: engagement_7d, engagement_30d, posts_7d, posts_30d

vars == <<env, files, dirs, served, handler, pc, req, proxy, calls, exc,
          response, target, request, fetched, path, fetches, misses, medias, now,
          idx, stats>>

----------------------------------------------------------------------------
(* Bounds of the model *)

MaxRequests == 2
MaxPosts == 2

----------------------------------------------------------------------------
(* Python values *)

None == [t |-> "None"]
StrV(s) == [t |-> "str", s |-> s]
IntV(n) == [t |-> "int", n |-> n]

\* bool(v): None, "" and 0 are falsy
Truthy(v) ==
  CASE v.t = "None" -> FALSE
    [] v.t = "str" -> Len(v.s) > 0
    [] v.t = "int" -> v.n # 0

Digits == <<"0", "1", "2", "3", "4", "5", "6", "7", "8", "9">>

RECURSIVE IntToStr(_)
IntToStr(n) ==
  IF n < 10 THEN <<Digits[n + 1]>>
  ELSE IntToStr(n \div 10) \o <<Digits[(n % 10) + 1]>>

\* f"{v}": str(v)
Format(v) ==
  CASE v.t = "None" -> <<"N", "o", "n", "e">>
    [] v.t = "str" -> v.s
    [] v.t = "int" -> IntToStr(v.n)

\* dict.get(key, default)
Get(d, key, default) == IF key \in DOMAIN d THEN d[key] ELSE default

----------------------------------------------------------------------------
(* configure_proxy *)

\* proxy_config is None or a dict
NoDict == [t |-> "None"]
Dict(d) == [t |-> "dict", d |-> d]

\* `not proxy_config`: None or the empty dict
ProxyConfigFalsy(cfg) == cfg.t = "None" \/ DOMAIN cfg.d = {}

Host(d) == Get(d, "host", None)
Port(d) == Get(d, "port", None)
Username(d) == Get(d, "username", None)
Password(d) == Get(d, "password", None)
Protocol(d) == Get(d, "protocol", StrV(<<"h", "t", "t", "p">>))

\* the port left unchecked
SkipsProxy_HostOnly(d) == ~Truthy(Get(d, "host", None))

\* `not host or not port`
SkipsProxy(d) == ~Truthy(Host(d)) \/ ~Truthy(Port(d))

\* the password left unchecked
HasCredentials_UsernameOnly(d) == Truthy(Username(d))

HasCredentials(d) == Truthy(Username(d)) /\ Truthy(Password(d))

proxy_url(d) ==
  LET scheme == Format(Protocol(d)) \o <<":", "/", "/">>
      creds  == IF HasCredentials(d)
                THEN Format(Username(d)) \o <<":">> \o Format(Password(d)) \o <<"@">>
                ELSE <<>>
  IN  scheme \o creds \o Format(Host(d)) \o <<":">> \o Format(Port(d))

----------------------------------------------------------------------------
(* os.path on POSIX paths *)

\* os.getcwd(): the service runs in /w
getcwd == <<"/", "w">>

\* str.split("/")
RECURSIVE SplitFrom(_, _)
SplitFrom(s, cur) ==
  IF s = <<>> THEN <<cur>>
  ELSE IF Head(s) = "/" THEN <<cur>> \o SplitFrom(Tail(s), <<>>)
  ELSE SplitFrom(Tail(s), Append(cur, Head(s)))

Split(s) == SplitFrom(s, <<>>)

\* "/".join(comps)
RECURSIVE Join(_)
Join(comps) ==
  IF comps = <<>> THEN <<>>
  ELSE IF Len(comps) = 1 THEN comps[1]
  ELSE comps[1] \o <<"/">> \o Join(Tail(comps))

isabs(p) == Len(p) > 0 /\ p[1] = "/"

DotDot == <<".", ".">>

\* the loop of posixpath.normpath over the components
RECURSIVE NormComps(_, _, _)
NormComps(comps, new, initial_slashes) ==
  IF comps = <<>> THEN new
  ELSE LET comp == Head(comps)
           rest == Tail(comps)
       IN  IF comp = <<>> \/ comp = <<".">>
           THEN NormComps(rest, new, initial_slashes)
           ELSE IF comp # DotDot
                   \/ (~initial_slashes /\ new = <<>>)
                   \/ (new # <<>> /\ new[Len(new)] = DotDot)
           THEN NormComps(rest, Append(new, comp), initial_slashes)
           ELSE IF new # <<>>
           THEN NormComps(rest, SubSeq(new, 1, Len(new) - 1), initial_slashes)
           ELSE NormComps(rest, new, initial_slashes)

normpath(p) ==
  LET joined == Join(NormComps(Split(p), <<>>, isabs(p)))
      res    == IF isabs(p) THEN <<"/">> \o joined ELSE joined
  IN  IF res = <<>> THEN <<".">> ELSE res

abspath(p) == IF isabs(p) THEN normpath(p) ELSE normpath(getcwd \o <<"/">> \o p)

\* the non-empty components of a path
Comps(p) == SelectSeq(Split(p), LAMBDA c : c # <<>>)

RECURSIVE CommonLen(_, _)
CommonLen(a, b) ==
  IF a = <<>> \/ b = <<>> \/ Head(a) # Head(b) THEN 0
  ELSE 1 + CommonLen(Tail(a), Tail(b))

relpath(p, start) ==
  LET start_list == Comps(abspath(start))
      path_list  == Comps(abspath(p))
      i          == CommonLen(start_list, path_list)
      rel_list   == [k \in 1..(Len(start_list) - i) |-> DotDot]
                      \o SubSeq(path_list, i + 1, Len(path_list))
  IN  IF rel_list = <<>> THEN <<".">> ELSE Join(rel_list)

\* index of the last "/" of p, 0 when there is none
RECURSIVE rfindSlash(_, _)
rfindSlash(p, i) ==
  IF i = 0 THEN 0 ELSE IF p[i] = "/" THEN i ELSE rfindSlash(p, i - 1)

\* str.rstrip("/")
RECURSIVE rstripSlash(_)
rstripSlash(s) ==
  IF s # <<>> /\ s[Len(s)] = "/" THEN rstripSlash(SubSeq(s, 1, Len(s) - 1)) ELSE s

dirname(p) ==
  LET head == SubSeq(p, 1, rfindSlash(p, Len(p)))
  IN  IF head # <<>> /\ \E k \in 1..Len(head) : head[k] # "/"
      THEN rstripSlash(head) ELSE head

\* str.replace("\\", "/")
replaceBackslash(s) == [k \in 1..Len(s) |-> IF s[k] = "\\" THEN "/" ELSE s[k]]

\* str.startswith("..")
startswithDotDot(s) == Len(s) >= 2 /\ s[1] = "." /\ s[2] = "."

\* str.lstrip("./"): drop leading characters that are "." or "/"
RECURSIVE lstripDotSlash(_)
lstripDotSlash(s) ==
  IF s # <<>> /\ Head(s) \in {".", "/"} THEN lstripDotSlash(Tail(s)) ELSE s

\* os.path.exists: the path names a file or a directory
exists(p, fs, ds) == normpath(p) \in fs \/ normpath(p) \in ds

\* the directories os.makedirs(d, exist_ok=True) leaves in place
makedirs(d, ds) ==
  LET comps == Comps(normpath(d))
  IN  ds \cup {<<"/">> \o Join(SubSeq(comps, 1, k)) : k \in 0..Len(comps)}

\* open(p, "wb") succeeds when the parent directory is there
CanOpen(p, ds) == normpath(dirname(p)) \in ds

----------------------------------------------------------------------------
(* Inputs *)

Absent == [t |-> "absent"]

Keys == {"host", "port", "username", "password", "protocol"}

\* the dict holding the given values, without the keys that are Absent
MkDict(h, po, u, pw, pr) ==
  LET f == [k \in Keys |->
              CASE k = "host" -> h
                [] k = "port" -> po
                [] k = "username" -> u
                [] k = "password" -> pw
                [] k = "protocol" -> pr]
  IN  [k \in {x \in Keys : f[x].t # "absent"} |-> f[k]]

socks5 == <<"s", "o", "c", "k", "s", "5">>

HostVals == {Absent, None, StrV(<<>>), StrV(<<"h">>)}
PortVals == {Absent, None, IntV(0), IntV(1), IntV(80)}
UserVals == {Absent, StrV(<<>>), StrV(<<"u">>)}
PassVals == {Absent, StrV(<<>>), StrV(<<"p">>)}
ProtoVals == {Absent, None, StrV(socks5)}

ProxyConfigs ==
  {NoDict} \cup
  {Dict(MkDict(h, po, u, pw, pr)) :
     h \in HostVals, po \in PortVals, u \in UserVals, pw \in PassVals, pr \in ProtoVals}

FullConfig == Dict(MkDict(StrV(<<"h">>), IntV(1), StrV(<<"u">>), StrV(<<"p">>), StrV(socks5)))

SomeProxyConfigs ==
  { NoDict,
    Dict(MkDict(StrV(<<"h">>), Absent, Absent, Absent, Absent)),
    Dict(MkDict(StrV(<<"h">>), IntV(80), Absent, Absent, Absent)),
    FullConfig }

OneProxyConfig == {NoDict, FullConfig}

\* photo_path / video_path of a request
Paths ==
  { <<"a">>,
    <<".", "/", "a">>,
    <<"/", "w", "/", "a">>,
    <<"/", "w", "/", ".", "/", "a">>,
    <<"d", "/", "a">>,
    <<".", ".", "/", "b">>,
    <<"/", "x", "/", "b">> }

SomePaths == { <<"a">>, <<"/", "x", "/", "b">> }

TargetPaths == {abspath(p) : p \in Paths}

\* values of an environment variable: unset, empty, set
EnvVals(c) == {None, StrV(<<>>), StrV(<<c>>)}

\* status codes a storage response carries
Statuses == {200, 399, 400, 404, 500}

\* medias: taken_at is a wall-clock hour with an optional UTC offset in hours
\* (a naive datetime has tzinfo None)
Now0 == 1000

Ages == {167, 168, 720, 721}

TzInfos == {None, IntV(0), IntV(1)}

Counts == {None, IntV(5)}

Media ==
  [taken_at : [hour : {Now0 - a : a \in Ages}, tzinfo : TzInfos],
   like_count : Counts, comment_count : {None, IntV(1)}]

SomeMedia ==
  [taken_at : [hour : {Now0 - 168, Now0 - 721}, tzinfo : {None}],
   like_count : {IntV(5)}, comment_count : {None}]

SeqsUpTo(S, n) == UNION {[1..k -> S] : k \in 0..n}

----------------------------------------------------------------------------
(* State *)

NoExc == [t |-> "none"]
Exception == [t |-> "Exception"]
HTTPException(status_code) == [t |-> "HTTPException", status_code |-> status_code]

NoResponse == [status |-> 0]
NoRequest == [t |-> "none"]
NoFetch == [t |-> "none"]
NoStats == [engagement_7d |-> 0, engagement_30d |-> 0, posts_7d |-> 0, posts_30d |-> 0]

Call(op, ok) == [op |-> op, ok |-> ok]

Init ==
  /\ env \in [SUPABASE_URL : EnvVals("s"), SUPABASE_KEY : {None, StrV(<<"k">>)},
              SUPABASE_BUCKET : {None, StrV(<<"m">>)}]
  /\ files \in {{}, {<<"/", "w", "/", "a">>}}
  /\ dirs = {<<"/">>, <<"/", "w">>}
  /\ served = 0
  /\ handler = "none"
  /\ pc = "idle"
  /\ req = [proxy_config |-> NoDict, path |-> <<>>]
  /\ proxy = None
  /\ calls = <<>>
  /\ exc = NoExc
  /\ response = NoResponse
  /\ target = <<>>
  /\ request = NoRequest
  /\ fetched = NoFetch
  /\ path = <<>>
  /\ fetches = [p \in TargetPaths |-> 0]
  /\ misses = [p \in TargetPaths |-> 0]
  /\ medias = <<>>
  /\ now = 0
  /\ idx = 0
  /\ stats = NoStats

\* no storage configured, an empty working directory
InitLocal ==
  /\ Init
  /\ env = [SUPABASE_URL |-> None, SUPABASE_KEY |-> None, SUPABASE_BUCKET |-> None]
  /\ files = {}

\* what no step of a handler touches
Globals == <<env, served>>
Disk == <<files, dirs, fetches, misses>>
Resolver == <<target, request, fetched, path>>
Aggregation == <<medias, now, idx, stats>>

----------------------------------------------------------------------------
(* Handlers: the order of their steps *)

Uploads == {"upload_photo", "upload_video"}

\* the statement after configure_proxy(cl, req.proxy_config)
AfterProxy(h) == IF h = "login" THEN "login" ELSE "set_settings"

\* the warm-up call left out
AfterSettings_NoWarmup(h) ==
  IF h = "get_stats" THEN "user_info_by_username" ELSE "ensure_media_path"

\* the statement after cl.set_settings(req.settings_json)
AfterSettings(h) == "get_timeline_feed"

\* the statement after cl.get_timeline_feed()
AfterWarmup(h) == IF h = "get_stats" THEN "user_info_by_username" ELSE "ensure_media_path"

\* the failure of set_proxy reaching the handler
OnProxyFailure_Propagates(h) == "except"

\* configure_proxy's `except Exception as e: print(...)`: the function returns
OnProxyFailure(h) == AfterProxy(h)

\* the upload method an upload handler calls
UploadOp(h) == IF h = "upload_photo" THEN "photo_upload" ELSE "video_upload"

\* `except Exception as e: raise HTTPException(status_code=400, ...)`
HandlerStatus(e) == 400

\* a call of the client that returns or raises
ClientCall(at, op, next) ==
  /\ pc = at
  /\ \E ok \in BOOLEAN :
       /\ calls' = Append(calls, Call(op, ok))
       /\ pc' = IF ok THEN next ELSE "except"
       /\ exc' = IF ok THEN exc ELSE Exception

Receive(h, cfg, p) ==
  /\ pc = "idle"
  /\ served < MaxRequests
  /\ served' = served + 1
  /\ handler' = h
  /\ req' = [proxy_config |-> cfg, path |-> p]
  /\ pc' = "configure_proxy"
  /\ UNCHANGED <<env, Disk, proxy, calls, exc, response, Resolver, Aggregation>>

ReceiveLogin(cfgs) == \E cfg \in cfgs : Receive("login", cfg, <<>>)

ReceiveStats(cfgs) == \E cfg \in cfgs : Receive("get_stats", cfg, <<>>)

ReceiveUpload(cfgs, paths) ==
  \E h \in Uploads, cfg \in cfgs, p \in paths : Receive(h, cfg, p)

\* configure_proxy(cl, req.proxy_config)
ConfigureProxy ==
  /\ pc = "configure_proxy"
  /\ LET cfg == req.proxy_config
         entered == Append(calls, Call("configure_proxy", TRUE))
     IN  IF ProxyConfigFalsy(cfg) \/ SkipsProxy(cfg.d)
         THEN /\ calls' = entered
              /\ proxy' = proxy
              /\ pc' = AfterProxy(handler)
         ELSE \E ok \in BOOLEAN :
                /\ calls' = Append(entered, Call("set_proxy", ok))
                /\ IF ok
                   THEN /\ proxy' = StrV(proxy_url(cfg.d))
                        /\ pc' = AfterProxy(handler)
                   ELSE /\ proxy' \in {proxy, StrV(proxy_url(cfg.d))}
                        /\ pc' = OnProxyFailure(handler)
  /\ UNCHANGED <<Globals, Disk, handler, req, exc, response, Resolver, Aggregation>>

\* cl.set_settings(req.settings_json)
SetSettings ==
  /\ ClientCall("set_settings", "set_settings", AfterSettings(handler))
  /\ UNCHANGED <<Globals, Disk, handler, req, proxy, response, Resolver, Aggregation>>

\* cl.get_timeline_feed()
GetTimelineFeed ==
  /\ ClientCall("get_timeline_feed", "get_timeline_feed", AfterWarmup(handler))
  /\ UNCHANGED <<Globals, Disk, handler, req, proxy, response, Resolver, Aggregation>>

\* cl.login(req.username, req.password, verification_code=...)
Login ==
  /\ ClientCall("login", "login", "get_settings")
  /\ UNCHANGED <<Globals, Disk, handler, req, proxy, response, Resolver, Aggregation>>

\* settings = cl.get_settings(); return {"success": True, ...}
GetSettings ==
  /\ ClientCall("get_settings", "get_settings", "done")
  /\ response' = IF pc' = "done" THEN [status |-> 200] ELSE response
  /\ UNCHANGED <<Globals, Disk, handler, req, proxy, Resolver, Aggregation>>

\* the handler's except clause
HandlerExcept ==
  /\ pc = "except"
  /\ response' = [status |-> HandlerStatus(exc)]
  /\ pc' = "done"
  /\ UNCHANGED <<Globals, Disk, handler, req, proxy, calls, exc, Resolver, Aggregation>>

\* the response is sent; the client and the locals of the request are dropped
Finish ==
  /\ pc = "done"
  /\ pc' = "idle"
  /\ handler' = "none"
  /\ req' = [proxy_config |-> NoDict, path |-> <<>>]
  /\ proxy' = None
  /\ calls' = <<>>
  /\ exc' = NoExc
  /\ response' = NoResponse
  /\ target' = <<>>
  /\ request' = NoRequest
  /\ fetched' = NoFetch
  /\ path' = <<>>
  /\ medias' = <<>>
  /\ now' = 0
  /\ idx' = 0
  /\ stats' = NoStats
  /\ UNCHANGED <<Globals, Disk>>

----------------------------------------------------------------------------
(* ensure_media_path *)

\* the bucket left unchecked
Configured_NoBucket(e) == Truthy(e.SUPABASE_URL) /\ Truthy(e.SUPABASE_KEY)

\* SUPABASE_URL and SUPABASE_KEY and SUPABASE_BUCKET
Configured(e) ==
  Truthy(e.SUPABASE_URL) /\ Truthy(e.SUPABASE_KEY) /\ Truthy(e.SUPABASE_BUCKET)

target_path(original_path) ==
  IF isabs(original_path) THEN original_path ELSE abspath(original_path)

rel_key(original_path) ==
  LET r == replaceBackslash(relpath(target_path(original_path), getcwd))
  IN  IF startswithDotDot(r) THEN lstripDotSlash(original_path) ELSE r

ObjectPrefix ==
  <<"/", "s", "t", "o", "r", "a", "g", "e", "/", "v", "1", "/", "o", "b", "j", "e", "c", "t", "/">>

StorageUrl(e, original_path) ==
  Format(e.SUPABASE_URL) \o ObjectPrefix \o Format(e.SUPABASE_BUCKET)
    \o <<"/">> \o rel_key(original_path)

\* response.status_code >= 400
IsFailureStatus(status_code) == status_code >= 400

\* the HTTPException wrapped like any other exception
ResolverRaises_Wraps(e) == HTTPException(502)

\* `except HTTPException: raise` / `except Exception as exc: raise HTTPException(502)`
ResolverRaises(e) == IF e.t = "HTTPException" THEN e ELSE HTTPException(502)

\* os.makedirs(os.path.dirname(target_path), exist_ok=True)
ParentsMade(t, ds) == makedirs(dirname(t), ds)

\* the body written to the working directory instead of the target path
Written_Elsewhere(t, fs) == fs \cup {getcwd \o <<"/", "t", "m", "p">>}

\* with open(target_path, "wb") as fh: fh.write(response.content)
Written(t, fs) == fs \cup {normpath(t)}

\* lines 187-196: the local checks, up to the storage request being built
EnsureMediaPathLocal ==
  /\ pc = "ensure_media_path"
  /\ calls' = Append(calls, Call("ensure_media_path", TRUE))
  /\ target' = target_path(req.path)
  /\ IF exists(target', files, dirs) \/ ~Configured(env)
     THEN /\ path' = target'
          /\ request' = request
          /\ pc' = "exists_check"
     ELSE /\ path' = path
          /\ request' = [url |-> StorageUrl(env, req.path),
                         Authorization |-> Format(env.SUPABASE_KEY)]
          /\ pc' = "requests_get"
  /\ UNCHANGED <<Globals, Disk, handler, req, proxy, exc, response, fetched, Aggregation>>

\* lines 198-217: the storage request and what follows it
EnsureMediaPathFetch ==
  /\ pc = "requests_get"
  /\ \/ \* requests.get raises: connection error, timeout
        /\ calls' = Append(calls, Call("requests.get", FALSE))
        /\ fetched' = [t |-> "error"]
        /\ exc' = ResolverRaises(Exception)
        /\ pc' = "except"
        /\ UNCHANGED <<Disk, path>>
     \/ \E status_code \in Statuses :
          /\ calls' = Append(calls, Call("requests.get", TRUE))
          /\ fetched' = [t |-> "response", status_code |-> status_code]
          /\ IF IsFailureStatus(status_code)
             THEN /\ exc' = ResolverRaises(HTTPException(404))
                  /\ pc' = "except"
                  /\ misses' = [misses EXCEPT ![normpath(target)] = @ + 1]
                  /\ UNCHANGED <<files, dirs, fetches, path>>
             ELSE /\ dirs' = ParentsMade(target, dirs)
                  /\ misses' = misses
                  /\ fetches' = [fetches EXCEPT ![normpath(target)] = @ + 1]
                  /\ IF CanOpen(target, dirs')
                     THEN /\ files' = Written(target, files)
                          /\ path' = target
                          /\ exc' = exc
                          /\ pc' = "exists_check"
                     ELSE /\ files' = files
                          /\ path' = path
                          /\ exc' = ResolverRaises(Exception)
                          /\ pc' = "except"
  /\ UNCHANGED <<Globals, handler, req, proxy, response, target, request, Aggregation>>

\* the existence check left out
PathObserved_Always(p, fs, ds) == TRUE

\* if not os.path.exists(photo_path): raise HTTPException(status_code=404, ...)
PathObserved(p, fs, ds) == exists(p, fs, ds)

ExistsCheck ==
  /\ pc = "exists_check"
  /\ LET found == PathObserved(path, files, dirs)
     IN  /\ calls' = Append(calls, Call("os.path.exists", found))
         /\ pc' = IF found THEN "upload" ELSE "except"
         /\ exc' = IF found THEN exc ELSE HTTPException(404)
  /\ UNCHANGED <<Globals, Disk, handler, req, proxy, response, Resolver, Aggregation>>

\* media = cl.photo_upload(photo_path, req.caption or ""); return {...}
Upload ==
  /\ ClientCall("upload", UploadOp(handler), "done")
  /\ response' = IF pc' = "done" THEN [status |-> 200] ELSE response
  /\ UNCHANGED <<Globals, Disk, handler, req, proxy, Resolver, Aggregation>>

----------------------------------------------------------------------------
(* get_stats *)

\* cl.user_medias(user_id, amount=30)
MediasAmount == 30

Days7 == 7
Days30 == 30

week_ago(n) == n - Days7 * 24
month_ago(n) == n - Days30 * 24

\* media.like_count or 0
OrZero(v) == IF Truthy(v) THEN v.n ELSE 0

total_engagement(media) == OrZero(media.like_count) + OrZero(media.comment_count)

\* if taken_at.tzinfo is None: taken_at = taken_at.replace(tzinfo=timezone.utc)
Aware(taken_at) ==
  IF taken_at.tzinfo.t = "None" THEN [taken_at EXCEPT !.tzinfo = IntV(0)] ELSE taken_at

\* an exclusive boundary
AtOrAfter_Strict(taken_at, cutoff) == taken_at.hour - taken_at.tzinfo.n > cutoff

\* aware datetimes compare by their UTC instant
AtOrAfter(taken_at, cutoff) == taken_at.hour - taken_at.tzinfo.n >= cutoff

\* user_info = cl.user_info_by_username(req.username)
UserInfo ==
  /\ ClientCall("user_info_by_username", "user_info_by_username", "user_medias")
  /\ UNCHANGED <<Globals, Disk, handler, req, proxy, response, Resolver, Aggregation>>

\* medias = cl.user_medias(user_id, amount=30); now = datetime.now(timezone.utc)
UserMedias(results) ==
  /\ ClientCall("user_medias", "user_medias", "for_media")
  /\ IF pc' = "for_media"
     THEN /\ medias' \in {ms \in results : Len(ms) <= MediasAmount}
          /\ now' = Now0
     ELSE UNCHANGED <<medias, now>>
  /\ UNCHANGED <<Globals, Disk, handler, req, proxy, response, Resolver, idx, stats>>

\* one iteration of `for media in medias`
ForMedia ==
  /\ pc = "for_media"
  /\ idx < Len(medias)
  /\ LET media == medias[idx + 1]
         taken_at == Aware(media.taken_at)
         total == total_engagement(media)
         in7 == AtOrAfter(taken_at, week_ago(now))
         in30 == AtOrAfter(taken_at, month_ago(now))
     IN  stats' = [engagement_7d  |-> stats.engagement_7d + (IF in7 THEN total ELSE 0),
                   posts_7d       |-> stats.posts_7d + (IF in7 THEN 1 ELSE 0),
                   engagement_30d |-> stats.engagement_30d + (IF in30 THEN total ELSE 0),
                   posts_30d      |-> stats.posts_30d + (IF in30 THEN 1 ELSE 0)]
  /\ idx' = idx + 1
  /\ UNCHANGED <<Globals, Disk, handler, pc, req, proxy, calls, exc, response, Resolver,
                 medias, now>>

\* return {"success": True, ..., "posts_30d": posts_30d}
ReturnStats ==
  /\ pc = "for_media"
  /\ idx = Len(medias)
  /\ response' = [status |-> 200]
  /\ pc' = "done"
  /\ UNCHANGED <<Globals, Disk, handler, req, proxy, calls, exc, Resolver, Aggregation>>

----------------------------------------------------------------------------
(* Specifications *)

Steps ==
  \/ ConfigureProxy
  \/ HandlerExcept
  \/ Finish

LoginSteps == Login \/ GetSettings

SessionSteps == SetSettings \/ GetTimelineFeed

UploadSteps == EnsureMediaPathLocal \/ EnsureMediaPathFetch \/ ExistsCheck \/ Upload

StatsSteps == UserInfo \/ ForMedia \/ ReturnStats

\* the four endpoints
Next ==
  \/ ReceiveLogin(SomeProxyConfigs)
  \/ ReceiveStats(OneProxyConfig)
  \/ ReceiveUpload(OneProxyConfig, SomePaths)
  \/ UserMedias(SeqsUpTo(SomeMedia, MaxPosts))
  \/ Steps \/ LoginSteps \/ SessionSteps \/ UploadSteps \/ StatsSteps

Spec == Init /\ [][Next]_vars

\* login with every proxy configuration
NextProxy ==
  \/ ReceiveLogin(ProxyConfigs)
  \/ Steps \/ LoginSteps

SpecProxy == InitLocal /\ [][NextProxy]_vars

\* the upload endpoints with every path
NextMedia ==
  \/ ReceiveUpload(OneProxyConfig, Paths)
  \/ Steps \/ SessionSteps \/ UploadSteps

SpecMedia == Init /\ [][NextMedia]_vars

\* get_stats with every list of medias
NextStats ==
  \/ ReceiveStats({NoDict})
  \/ UserMedias(SeqsUpTo(Media, MaxPosts))
  \/ Steps \/ SessionSteps \/ StatsSteps

SpecStats == InitLocal /\ [][NextStats]_vars

----------------------------------------------------------------------------
(* Properties *)

Ops == {calls[i].op : i \in DOMAIN calls}
Where(op) == {i \in DOMAIN calls : calls[i].op = op}
UploadCalls == Where("photo_upload") \cup Where("video_upload")

\* the endpoint-specific operations of the handlers
Delegated ==
  {"login", "get_settings", "ensure_media_path", "requests.get", "photo_upload",
   "video_upload", "user_info_by_username", "user_medias"}

\* C1: in upload_photo and upload_video an exception raised with a status keeps
\* that status in the response (404 for missing media, 502 for a failed
\* storage fetch); only the other exceptions end with 400.
C1_StatusKept ==
  (pc = "done" /\ handler \in Uploads /\ exc.t # "none")
    => response.status = (IF exc.t = "HTTPException" THEN exc.status_code ELSE 400)

\* C2 as stated: in all four handlers every endpoint-specific operation comes
\* after proxy configuration, session settings and exactly one warm-up call.
C2_AllFourHandlers ==
  \A i \in DOMAIN calls :
    calls[i].op \in Delegated =>
      /\ \E j \in 1..(i - 1) : calls[j].op = "configure_proxy"
      /\ \E j \in 1..(i - 1) : calls[j].op = "set_settings"
      /\ Cardinality({j \in 1..(i - 1) : calls[j].op = "get_timeline_feed"}) = 1

\* C2 amended: every handler configures the proxy first; upload_photo,
\* upload_video and get_stats then apply the session settings, make exactly one
\* warm-up call and only then run their endpoint-specific operations; login
\* authenticates right after proxy configuration, with no session settings and
\* no warm-up call.
C2_HandlerOrder ==
  /\ calls # <<>> => calls[1].op = "configure_proxy"
  /\ Cardinality(Where("configure_proxy")) <= 1
  /\ Cardinality(Where("get_timeline_feed")) <= 1
  /\ \A i \in Where("get_timeline_feed") :
       \E j \in 1..(i - 1) : calls[j] = Call("set_settings", TRUE)
  /\ handler # "login" =>
       \A i \in DOMAIN calls :
         calls[i].op \in Delegated =>
           \E j \in 1..(i - 1) : calls[j] = Call("get_timeline_feed", TRUE)
  /\ handler = "login" =>
       /\ Ops \cap {"set_settings", "get_timeline_feed"} = {}
       /\ \A i \in Where("login") : calls[i - 1].op \in {"configure_proxy", "set_proxy"}

C2_Witness ==
  /\ handler = "get_stats"
  /\ "user_medias" \in Ops
  /\ "set_proxy" \in Ops
  /\ response.status = 200

\* C3: a set_proxy that raises is swallowed by configure_proxy: the handler
\* goes on to the step that follows proxy configuration, no exception is
\* pending, and a request in which nothing else fails is answered with success.
C3_ProxyFailureSwallowed ==
  /\ (calls # <<>> /\ calls[Len(calls)] = Call("set_proxy", FALSE)) =>
       /\ pc = (IF handler = "login" THEN "login" ELSE "set_settings")
       /\ exc = NoExc
  /\ (/\ pc = "done"
      /\ Call("set_proxy", FALSE) \in {calls[i] : i \in DOMAIN calls}
      /\ exc = NoExc) =>
       response.status = 200

C3_Witness ==
  /\ pc = "done"
  /\ Call("set_proxy", FALSE) \in {calls[i] : i \in DOMAIN calls}
  /\ handler \in Uploads
  /\ response.status = 200

\* the value is None, "" or 0
Empty(v) == v.t = "None" \/ (v.t = "str" /\ v.s = <<>>) \/ (v.t = "int" /\ v.n = 0)

Lacks(cfg, key) == cfg.t = "None" \/ key \notin DOMAIN cfg.d \/ Empty(cfg.d[key])

\* C4: for a proxy configuration that is absent, empty, or without a host or a
\* port (key absent, or value None, "" or 0), configure_proxy never calls
\* set_proxy, leaves the client's proxy unset and raises nothing.
C4_NoHostOrPortNoProxy ==
  (calls # <<>> /\ (Lacks(req.proxy_config, "host") \/ Lacks(req.proxy_config, "port"))) =>
    /\ "set_proxy" \notin Ops
    /\ proxy = None
    /\ Len(calls) = 1 => (pc = (IF handler = "login" THEN "login" ELSE "set_settings")
                          /\ exc = NoExc)

C4_Witness ==
  /\ Len(calls) = 1
  /\ req.proxy_config.t = "dict"
  /\ DOMAIN req.proxy_config.d = Keys
  /\ req.proxy_config.d["host"] = StrV(<<"h">>)
  /\ req.proxy_config.d["port"] = IntV(0)
  /\ Truthy(req.proxy_config.d["username"])
  /\ pc = "login"

StartsWith(s, prefix) == Len(s) >= Len(prefix) /\ SubSeq(s, 1, Len(prefix)) = prefix

Http == <<"h", "t", "t", "p">>

\* protocol://[username:password@]host:port for the configuration d
ExpectedUrl(d) ==
  LET protocol == IF "protocol" \in DOMAIN d THEN Format(d["protocol"]) ELSE Http
      both == ~Lacks(Dict(d), "username") /\ ~Lacks(Dict(d), "password")
      rest == Format(d["host"]) \o <<":">> \o Format(d["port"])
  IN  protocol \o <<":", "/", "/">>
        \o (IF both THEN Format(d["username"]) \o <<":">> \o Format(d["password"]) \o <<"@">>
            ELSE <<>>)
        \o rest

Socks5WithCredentials ==
  <<"s", "o", "c", "k", "s", "5", ":", "/", "/", "u", ":", "p", "@", "h", ":", "1">>

Socks5Plain == <<"s", "o", "c", "k", "s", "5", ":", "/", "/", "h", ":", "1">>

\* C5: for a proxy configuration with host and port, configure_proxy calls
\* set_proxy exactly once, with protocol://[username:password@]host:port:
\* protocol is "http" when the key is not given, and the credentials segment
\* with its "@" is there exactly when both username and password are present.
\* {h, 1, u, p, socks5} gives socks5://u:p@h:1; without the username or
\* without the password it gives socks5://h:1.
C5_ProxyUrl ==
  LET cfg == req.proxy_config
  IN  (calls # <<>> /\ ~Lacks(cfg, "host") /\ ~Lacks(cfg, "port")) =>
        /\ Cardinality(Where("set_proxy")) = 1
        /\ Call("set_proxy", TRUE) \in {calls[i] : i \in DOMAIN calls} => proxy # None
        /\ proxy # None =>
             /\ proxy = StrV(ExpectedUrl(cfg.d))
             /\ ("protocol" \notin DOMAIN cfg.d) => StartsWith(proxy.s, Http \o <<":", "/", "/">>)
             /\ ("@" \in {proxy.s[i] : i \in DOMAIN proxy.s})
                  <=> (~Lacks(cfg, "username") /\ ~Lacks(cfg, "password"))
             /\ cfg = FullConfig => proxy.s = Socks5WithCredentials
             /\ (/\ Get(cfg.d, "protocol", None) = StrV(socks5)
                 /\ cfg.d["host"] = StrV(<<"h">>) /\ cfg.d["port"] = IntV(1)
                 /\ (Lacks(cfg, "username") \/ Lacks(cfg, "password")))
                  => proxy.s = Socks5Plain

C5_Witness ==
  /\ proxy = StrV(Socks5Plain)
  /\ "username" \in DOMAIN req.proxy_config.d
  /\ Truthy(req.proxy_config.d["username"])
  /\ pc = "done"

\* the environment variable holds a non-empty string
IsSet(v) == v.t = "str" /\ v.s # <<>>

StorageConfigured == IsSet(env.SUPABASE_URL) /\ IsSet(env.SUPABASE_KEY) /\ IsSet(env.SUPABASE_BUCKET)

OnDisk(p) == normpath(p) \in files \cup dirs

\* the resolver is called in this step
Resolving == pc = "ensure_media_path"

\* the resolver gets the storage response in this step
Answered == pc = "requests_get" /\ fetched'.t = "response"

\* C6: the resolver issues a storage request only when the absolute path does
\* not exist locally and base URL, key and bucket are all configured; when the
\* file exists, or one of the three is missing, it returns the absolute path
\* with no network call, no file written and no exception, also when the file
\* is missing.
C6_RemoteOnlyWhenMissingAndConfigured ==
  [][ /\ (Resolving /\ pc' = "requests_get") =>
           (~OnDisk(abspath(req.path)) /\ StorageConfigured)
      /\ (Resolving /\ (OnDisk(abspath(req.path)) \/ ~StorageConfigured)) =>
           /\ pc' = "exists_check"
           /\ isabs(path') /\ normpath(path') = abspath(req.path)
           /\ isabs(req.path) => path' = req.path
           /\ "requests.get" \notin {calls'[i].op : i \in DOMAIN calls'}
           /\ request' = NoRequest
           /\ UNCHANGED <<files, dirs, fetches, misses, exc>>
      /\ "requests.get" \in {calls'[i].op : i \in DOMAIN calls'} => StorageConfigured
    ]_vars

C6_Witness ==
  /\ pc = "exists_check"
  /\ fetched = NoFetch
  /\ ~StorageConfigured
  /\ IsSet(env.SUPABASE_URL) /\ IsSet(env.SUPABASE_KEY)
  /\ path = <<"/", "w", "/", "d", "/", "a">>
  /\ ~OnDisk(path)
  /\ exc = NoExc

\* C7: when storage is configured, the file is missing and the storage response
\* is below 400, the resolver creates the parent directories, writes the file
\* at the resolved absolute path and returns that path; a later call with the
\* same path finds the file and returns the same path with no network call, so
\* a path is fetched successfully at most once.
C7_FetchedOnce ==
  [][ /\ (Answered /\ fetched'.status_code < 400) =>
           /\ fetches[normpath(target)] = 0
           /\ fetches'[normpath(target)] = 1
           /\ normpath(target) \in files'
           /\ normpath(dirname(target)) \in dirs'
           /\ files \subseteq files' /\ dirs \subseteq dirs'
           /\ path' = target
           /\ normpath(target) = abspath(req.path)
           /\ pc' = "exists_check"
           /\ exc' = NoExc
      /\ (Resolving /\ fetches[abspath(req.path)] > 0) =>
           /\ pc' = "exists_check"
           /\ normpath(path') = abspath(req.path)
           /\ "requests.get" \notin {calls'[i].op : i \in DOMAIN calls'}
           /\ fetches' = fetches
    ]_vars

C7_Witness ==
  /\ served = 2
  /\ pc = "exists_check"
  /\ fetched = NoFetch
  /\ req.path = <<"d", "/", "a">>
  /\ fetches[<<"/", "w", "/", "d", "/", "a">>] = 1
  /\ <<"/", "w", "/", "d">> \in dirs

\* C8: when storage is configured, the file is missing and the storage response
\* is 400 or above, the resolver raises the 404 HTTPException and not the 502
\* one, and writes nothing, so that a repeated call fetches again.
C8_FailureStatusIsNotFound ==
  [][ /\ (Answered /\ fetched'.status_code >= 400) =>
           /\ exc' = HTTPException(404)
           /\ pc' = "except"
           /\ UNCHANGED <<files, dirs, fetches, path>>
           /\ ~OnDisk(target)
      /\ (Resolving /\ misses[abspath(req.path)] > 0 /\ fetches[abspath(req.path)] = 0
            /\ ~OnDisk(abspath(req.path))) =>
           pc' = "requests_get"
    ]_vars

C8_Witness ==
  /\ pc = "except"
  /\ exc = HTTPException(404)
  /\ fetched = [t |-> "response", status_code |-> 500]
  /\ misses[<<"/", "x", "/", "b">>] = 2
  /\ files = {}
  /\ <<"/", "x">> \notin dirs

\* the UTC hour a media was taken at; a naive taken_at is taken as UTC
UtcHour(m) ==
  IF m.taken_at.tzinfo.t = "None" THEN m.taken_at.hour
  ELSE m.taken_at.hour - m.taken_at.tzinfo.n

\* the first n medias taken at or after the hour h
Since(h, n) == {i \in 1..n : UtcHour(medias[i]) >= h}

Engagement(m) ==
  (IF m.like_count.t = "None" THEN 0 ELSE m.like_count.n)
    + (IF m.comment_count.t = "None" THEN 0 ELSE m.comment_count.n)

RECURSIVE SumEngagement(_)
SumEngagement(I) ==
  IF I = {} THEN 0
  ELSE LET i == CHOOSE x \in I : TRUE
       IN  Engagement(medias[i]) + SumEngagement(I \ {i})

\* C9: the aggregation returns posts_7d / posts_30d = the number of medias
\* taken at or after now - 7 days / now - 30 days (both inclusive), and
\* engagement_7d / engagement_30d = the sums of (like_count or 0) +
\* (comment_count or 0) over the same medias; a media of the 7-day window is
\* also in the 30-day window; no medias give all zeros.
C9_Aggregation ==
  (handler = "get_stats" /\ pc \in {"for_media", "done"}) =>
    LET n == IF pc = "done" /\ response.status = 200 THEN Len(medias) ELSE idx
        week == Since(now - 7 * 24, n)
        month == Since(now - 30 * 24, n)
    IN  /\ pc = "done" /\ response.status = 200 => idx = Len(medias)
        /\ stats.posts_7d = Cardinality(week)
        /\ stats.posts_30d = Cardinality(month)
        /\ stats.engagement_7d = SumEngagement(week)
        /\ stats.engagement_30d = SumEngagement(month)
        /\ week \subseteq month
        /\ medias = <<>> => stats = NoStats

C9_Witness ==
  /\ pc = "done"
  /\ response.status = 200
  /\ Len(medias) = 2
  /\ UtcHour(medias[1]) = now - 7 * 24
  /\ medias[1].taken_at.tzinfo = IntV(1)
  /\ UtcHour(medias[2]) = now - 30 * 24
  /\ stats = [engagement_7d |-> 6, engagement_30d |-> 11, posts_7d |-> 1, posts_30d |-> 2]

\* the steps an upload depends on
Required == {"set_settings", "get_timeline_feed", "ensure_media_path", "os.path.exists"}

\* C10: in upload_photo and upload_video the upload is invoked at most once per
\* request, and only after session restore, warm-up and media resolution have
\* succeeded and the resolved path was seen to exist; if an earlier step
\* fails, or the resolved path does not exist, the request ends with an error
\* response and the upload is never invoked.
C10_UploadGuarded ==
  handler \in Uploads =>
    /\ Cardinality(UploadCalls) <= 1
    /\ \A i \in UploadCalls :
         /\ \A op \in Required : \E j \in 1..(i - 1) : calls[j] = Call(op, TRUE)
         /\ \A j \in 1..(i - 1) : calls[j].ok \/ calls[j].op = "set_proxy"
         /\ fetched.t \in {"none", "response"}
         /\ fetched.t = "response" => fetched.status_code < 400
    /\ (pc = "upload" \/ UploadCalls # {}) => OnDisk(path)
    /\ (/\ pc \in {"except", "done"}
        /\ \/ \E i \in DOMAIN calls : ~calls[i].ok /\ calls[i].op \in Required
           \/ fetched.t = "error"
           \/ (fetched.t = "response" /\ fetched.status_code >= 400)
           \/ ("os.path.exists" \in Ops /\ ~OnDisk(path))) =>
         /\ UploadCalls = {}
         /\ pc = "done" => response.status >= 400

C10_Witness ==
  /\ pc = "done"
  /\ handler = "upload_video"
  /\ response.status = 200
  /\ "requests.get" \in Ops
  /\ calls[Len(calls)] = Call("video_upload", TRUE)

====
